---- MODULE Spec2Model ----
(***************************************************************************)
(* Collaborative whiteboard block (src/src/block.tsx): one mounted         *)
(* component (the local session) with its PeerJS endpoint, its discovery   *)
(* timer, its links, and the React state the handlers read and write.      *)
(* The signaling service, the remote endpoints and the user are the        *)
(* environment.                                                            *)
(***************************************************************************)
EXTENDS Integers, Sequences, FiniteSets, TLC

(***************************************************************************)
(* Program constants                                                       *)
(***************************************************************************)
COLORS == <<"#FF6B6B", "#4ECDC4", "#45B7D1", "#96CEB4", "#FFEAA7", "#DDA0DD">>

RoomMaxLen == 30
Radix == 36
SuffixLen == 9
LookbackSteps == 10
LookbackStride == 3000
BucketSize == 10000
Variants == 3
DiscoveryPeriod == 5000
DiscoveryLifetime == 120000
ThrottleGap == 50

(***************************************************************************)
(* Bounds of the model                                                     *)
(***************************************************************************)
\* Math.random() is modelled as n / 2^RandomBits, n in 0 .. 2^RandomBits - 1.
RandomBits == 2
\* Number of palette entries the session may draw its colour from.
NumColors == 1
\* Number of link objects (DataConnection) the local endpoint ever holds open
\* or accepted.
MaxLinks == 2
\* Number of foreign endpoints registered under discoverable identifiers.
NumForeign == 2
\* Dials to registered endpoints still unanswered when a discovery tick fires.
MaxBacklog == 0
\* Number of discovery ticks the protocol specification follows.
MaxTicks == 1

\* Number of pointer positions the user and the remote ends draw at.
NumCoords == 1
\* The count of user-join messages sent on one link saturates here.
MaxJoins == 2

\* Number of palette entries the user clicks in the colour bar.
NumSwatches == 2
\* Number of transport endpoints the component creates before the user stops
\* changing the colour.
MaxEndpoints == 2
\* Number of open events of the endpoints the lifecycle specification follows.
MaxOpens == 2
\* The count of reconnect timeouts not yet run saturates here.
MaxRetries == 1
\* Milliseconds between two pointer events, and the number of such steps the
\* pointer specification follows.
PointerStep == 20
MaxPointerSteps == 3
\* Milliseconds between a render and the click that follows it.
ClickDelay == 1

\* Wall clock (ms) at which the first session of the room was created.
Epoch == 100000
\* Delay between the first session and the local one (the scenario's 4 s).
StartGap == 4000

(***************************************************************************)
(* Values                                                                  *)
(***************************************************************************)
AlphaNum == {"a", "b", "w", "x", "y", "z", "0", "1"}
\* window.location.href of the page, as a sequence of characters.
PageAddress == <<"x", ":", "/", "y", ".", "z">>

NoId == <<>>
EmptyMap == <<>>

MapSet(m, k, v) == [x \in DOMAIN m \cup {k} |-> IF x = k THEN v ELSE m[x]]
MapDelete(m, k) == [x \in DOMAIN m \ {k} |-> m[x]]

RECURSIVE Pow(_, _)
Pow(b, e) == IF e = 0 THEN 1 ELSE b * Pow(b, e - 1)

RECURSIVE StripNonAlnum(_)
StripNonAlnum(s) ==
    IF s = <<>> THEN <<>>
    ELSE IF Head(s) \in AlphaNum THEN <<Head(s)>> \o StripNonAlnum(Tail(s))
    ELSE StripNonAlnum(Tail(s))

Substring(s, n) == IF Len(s) <= n THEN s ELSE SubSeq(s, 1, n)

\* `wb-${href.replace(/[^a-zA-Z0-9]/g, '').substring(0, 30)}`
RoomIdOf(href) == <<"w", "b", "-">> \o Substring(StripNonAlnum(href), RoomMaxLen)

\* The fraction digits of (num / den).toString(36), at most k of them.
RECURSIVE FractionDigits(_, _, _)
FractionDigits(num, den, k) ==
    IF num = 0 \/ k = 0 THEN <<>>
    ELSE <<(num * Radix) \div den>>
           \o FractionDigits((num * Radix) % den, den, k - 1)

\* Math.random().toString(36).substr(2, 9) for Math.random() = n / 2^RandomBits
RandomSuffix(n) == FractionDigits(n, Pow(2, RandomBits), SuffixLen)

\* An identifier `${room}-${time}-${suffix}` is the triple of its parts: the
\* room holds one "-" only, the time is decimal and the suffix is base 36, so
\* two identifiers are the same string exactly when the triples are equal.
MakeId(room, time, sfx) == <<room, time, sfx>>

\* `${roomId}-${Date.now()}-${Math.random().toString(36).substr(2, 9)}`
uniquePeerId(room, time, n) == MakeId(room, time, RandomSuffix(n))

\* Math.floor(potentialTime / 10000) * 10000
Bucket(t) == (t \div BucketSize) * BucketSize

\* `${basePeerId}-${j}` for the i-th step back from timestamp
potentialPeerId(room, timestamp, i, j) ==
    MakeId(room, Bucket(timestamp - i * LookbackStride), <<j>>)

\* The candidates of one discovery tick in the order the loops generate them.
Candidates(room, timestamp) ==
    [n \in 1 .. (LookbackSteps * Variants) |->
        potentialPeerId(room, timestamp, (n - 1) \div Variants, (n - 1) % Variants)]

\* The candidates the tick passes to tryConnectToPeer: those that differ from
\* myId and that the connections map of the closure does not hold.
SelectDials(cands, myId, conns) ==
    SelectSeq(cands, LAMBDA c : c # myId /\ c \notin DOMAIN conns)

Range(s) == {s[i] : i \in DOMAIN s}

(***************************************************************************)
(* State                                                                   *)
(***************************************************************************)
VARIABLES
    now,              \* Date.now()
    roomId,           \* useState roomId
    selectedColor,    \* useState selectedColor
    connectionStatus, \* useState connectionStatus
    myUserId,         \* useState myUserId
    connections,      \* useState connections: remote id -> link
    users,            \* useState users: id -> User
    userCursors,      \* useState userCursors: id -> {x, y}
    peerId,           \* the id newPeer was created with
    peerOpen,         \* the endpoint's open event has fired
    fx,               \* what the effect's handlers captured at its render
    ui,               \* what the handlers of the last committed render captured
    dirty,            \* a state update is waiting for its render
    timers,           \* the discovery intervals with their clearing timeouts
    dialQueue,        \* outbound links to registered endpoints, not yet answered
    dialedAbsent,     \* a candidate nobody is registered under has been dialed
    links,            \* the link objects of the endpoint, in creation order
    peerA,            \* identifier of the session that joined the room first
    inbound,          \* the endpoints that dial the local one
    guessedA,         \* history: some tick generated peerA as a candidate
    ev,               \* the handler that ran last and what it found
    sent,             \* link -> messages the last handler sent on it
    failed,           \* links on which a send of the last handler did not go out
    canvasOps,        \* canvas operations of the last handler
    isDrawing,        \* useState isDrawing
    lastMousePos,     \* useState lastMousePos
    gen,              \* number of endpoints (new Peer) created so far
    retries,          \* reconnect timeouts of the error handler not yet run
    peerEv,           \* history: the most recent endpoint event
    opens,            \* history: number of open events so far
    firstOpenAt,      \* history: time of the first open event (0: none yet)
    lastCursorAt      \* history: time of the last cursor broadcast (0: none yet)

vars == <<now, roomId, selectedColor, connectionStatus, myUserId, connections,
          users, userCursors, peerId, peerOpen, fx, ui, dirty, timers,
          dialQueue, dialedAbsent, links, peerA, inbound, guessedA, ev, sent,
          failed, canvasOps, isDrawing, lastMousePos, gen, retries, peerEv,
          opens, firstOpenAt, lastCursorAt>>

\* What the handlers of the links and of discovery leave alone.
staticVars == <<roomId, selectedColor, peerId, peerA, inbound, gen, retries,
                lastCursorAt>>
pointerVars == <<isDrawing, lastMousePos>>
endpointVars == <<connectionStatus, myUserId, peerOpen, peerEv, opens, firstOpenAt>>
timeVars == <<now, timers, guessedA>>
dialVars == <<dialQueue, dialedAbsent>>

Palette == {COLORS[i] : i \in 1 .. NumColors}
\* The colour buttons the user clicks.
Swatches == {COLORS[i] : i \in 1 .. NumSwatches}
RandomValues == 0 .. (Pow(2, RandomBits) - 1)
Coords == {[x |-> c, y |-> c] : c \in 1 .. NumCoords}
\* useState lastMousePos({ x: 0, y: 0 })
Origin == [x |-> 0, y |-> 0]

\* Foreign endpoints of the room, registered under identifiers of the form the
\* discovery loop generates: the first in the bucket of Epoch, each further one
\* a whole lookback older, so that the local discovery no longer reaches it.
ForeignIds ==
    {MakeId(roomId, Bucket(Epoch) - j * LookbackSteps * LookbackStride, <<j>>) :
        j \in 0 .. (NumForeign - 1)}
\* Identifiers registered at the signaling service besides the local one.
Registered == ForeignIds \cup {peerA}

NumTicks == DiscoveryLifetime \div DiscoveryPeriod

\* A session of this program that opened at time t0 dials target at some tick.
ProgramDials(self, t0, target) ==
    /\ target # self
    /\ \E k \in 1 .. NumTicks, i \in 0 .. (LookbackSteps - 1), j \in 0 .. (Variants - 1) :
          target = potentialPeerId(roomId, t0 + k * DiscoveryPeriod, i, j)

\* The endpoints that connect to the local one: the foreign ones, and the
\* first session if its own discovery finds the local identifier.
InboundSources ==
    ForeignIds \cup {r \in {peerA} : ProgramDials(peerA, Epoch, peerId)}

Ev(type, link, msg, had) == [type |-> type, link |-> link, msg |-> msg, had |-> had]

NoOutput == /\ sent' = EmptyMap
            /\ failed' = {}
            /\ canvasOps' = <<>>

\* The state after the mount effects: room id and colour are set and the
\* endpoint is created; the two sessions drew their suffixes from randoms.
InitWith(randoms) ==
    /\ now = Epoch + StartGap
    /\ roomId = RoomIdOf(PageAddress)
    /\ selectedColor \in Palette
    /\ connectionStatus = "connecting"
    /\ myUserId = NoId
    /\ connections = EmptyMap
    /\ users = EmptyMap
    /\ userCursors = EmptyMap
    /\ \E n \in randoms : peerId = uniquePeerId(roomId, now, n)
    /\ peerOpen = FALSE
    /\ fx = [myUserId |-> NoId, selectedColor |-> selectedColor,
             connections |-> EmptyMap, alias |-> TRUE]
    /\ ui = [myUserId |-> NoId, selectedColor |-> selectedColor,
             connections |-> EmptyMap, alias |-> TRUE, isDrawing |-> FALSE,
             lastMousePos |-> Origin, lastUpdate |-> 0]
    /\ dirty = FALSE
    /\ timers = {}
    /\ dialQueue = <<>>
    /\ dialedAbsent = FALSE
    /\ links = <<>>
    /\ \E n \in randoms : peerA = uniquePeerId(roomId, Epoch, n)
    /\ inbound = InboundSources
    /\ guessedA = FALSE
    /\ ev = Ev("mount", 0, "", {})
    /\ sent = EmptyMap
    /\ failed = {}
    /\ canvasOps = <<>>
    /\ isDrawing = FALSE
    /\ lastMousePos = Origin
    /\ gen = 1
    /\ retries = 0
    /\ peerEv = "created"
    /\ opens = 0
    /\ firstOpenAt = 0
    /\ lastCursorAt = 0

\* The protocol treats identifiers as opaque: one draw stands for all.
Init == InitWith({Pow(2, RandomBits) - 1})

\* The discovery window compares identifiers: every draw is followed.
InitWindow == InitWith(RandomValues)

\* The state of the first render, before the mount effects have run.
InitUnmounted ==
    /\ now = Epoch + StartGap
    /\ roomId = <<>>
    /\ selectedColor = COLORS[1]
    /\ connectionStatus = "disconnected"
    /\ myUserId = NoId
    /\ connections = EmptyMap
    /\ users = EmptyMap
    /\ userCursors = EmptyMap
    /\ peerId = NoId
    /\ peerOpen = FALSE
    /\ fx = [myUserId |-> NoId, selectedColor |-> selectedColor,
             connections |-> EmptyMap, alias |-> TRUE]
    /\ ui = [myUserId |-> NoId, selectedColor |-> selectedColor,
             connections |-> EmptyMap, alias |-> TRUE, isDrawing |-> FALSE,
             lastMousePos |-> Origin, lastUpdate |-> 0]
    /\ dirty = FALSE
    /\ timers = {}
    /\ dialQueue = <<>>
    /\ dialedAbsent = FALSE
    /\ links = <<>>
    /\ peerA = uniquePeerId(RoomIdOf(PageAddress), Epoch, Pow(2, RandomBits) - 1)
    /\ inbound = {}
    /\ guessedA = FALSE
    /\ ev = Ev("first-render", 0, "", {})
    /\ sent = EmptyMap
    /\ failed = {}
    /\ canvasOps = <<>>
    /\ isDrawing = FALSE
    /\ lastMousePos = Origin
    /\ gen = 0
    /\ retries = 0
    /\ peerEv = "none"
    /\ opens = 0
    /\ firstOpenAt = 0
    /\ lastCursorAt = 0

(***************************************************************************)
(* Helpers of the handlers                                                 *)
(***************************************************************************)
\* setConnections(prev => new Map(prev.set(k, l))): prev, the current state
\* object, is mutated before it is copied, so a closure that still holds that
\* object sees the new entry; afterwards the state is a fresh object.
ClosureAfterSet(c, k, l) ==
    IF c.alias THEN [c EXCEPT !.connections = MapSet(@, k, l), !.alias = FALSE]
    ELSE c

\* setConnections(prev => { copy; copy.delete(k); return copy }): prev is left
\* as it is and the state becomes a fresh object.
ClosureAfterDelete(c) == [c EXCEPT !.alias = FALSE]

UserJoinMsg(c) ==
    [type |-> "user-join", user |-> [id |-> c.myUserId, color |-> c.selectedColor]]
RequestCanvasStateMsg == [type |-> "request-canvas-state"]
CanvasStateMsg == [type |-> "canvas-state", imageData |-> "null"]
ClearMsg == [type |-> "clear"]
CursorMsg(p) == [type |-> "cursor", x |-> p.x, y |-> p.y]
DrawingMsg(d) == [type |-> "drawing", drawingData |-> d]

\* drawOnCanvas(drawData)
drawOnCanvas(d) == [op |-> "draw", data |-> d]
\* clearCanvas()
clearCanvas == [op |-> "clear", data |-> <<>>]

\* The number of user-join messages in msgs.
Joins(msgs) == Cardinality({i \in DOMAIN msgs : msgs[i].type = "user-join"})

\* conn.send(m1); conn.send(m2); ... on link l: a closed connection does not
\* transmit (the library reports an error on the connection instead).
SendOn(l, msgs) ==
    IF links[l].st = "open"
    THEN /\ sent' = (l :> msgs)
         /\ failed' = {}
    ELSE /\ sent' = EmptyMap
         /\ failed' = {l}

\* The links after msgs went out on link l (or did not, l being closed).
Count(ls, l, msgs) ==
    IF ls[l].st = "open" /\ ls[l].joins + Joins(msgs) <= MaxJoins
    THEN [ls EXCEPT ![l].joins = @ + Joins(msgs)]
    ELSE IF ls[l].st = "open" THEN [ls EXCEPT ![l].joins = MaxJoins]
    ELSE ls

\* BroadcastTargets without the conn.open test.
BroadcastTargetsAll(conns) == {conns[k] : k \in DOMAIN conns}

\* The connections broadcastData sends on: connections.forEach with conn.open
BroadcastTargets(conns) ==
    {conns[k] : k \in {r \in DOMAIN conns : links[conns[r]].st = "open"}}

\* broadcastData(data): each send may throw; the throw is caught and logged.
broadcastData(data) ==
    \E thrown \in SUBSET BroadcastTargets(ui.connections) :
        /\ sent' = [l \in BroadcastTargets(ui.connections) \ thrown |-> <<data>>]
        /\ failed' = thrown

(***************************************************************************)
(* Endpoint and discovery                                                  *)
(***************************************************************************)
\* startRoomDiscovery(peerInstance, myId): setInterval and setTimeout
startRoomDiscovery(myId) ==
    timers' = timers \cup {[myId |-> myId,
                            peer |-> gen,
                            due |-> now + DiscoveryPeriod,
                            stopAt |-> now + DiscoveryLifetime]}

\* newPeer.on('open', id => ...)
PeerOpen ==
    /\ gen > 0
    /\ ~peerOpen
    /\ peerOpen' = TRUE
    /\ peerEv' = "open"
    /\ opens' = opens + 1
    /\ firstOpenAt' = (IF opens = 0 THEN now ELSE firstOpenAt)
    /\ myUserId' = peerId
    /\ connectionStatus' = "connected"
    /\ users' = MapSet(users, peerId, [id |-> peerId, color |-> fx.selectedColor])
    /\ startRoomDiscovery(peerId)
    /\ dirty' = TRUE
    /\ ev' = Ev("peer-open", 0, "", {})
    /\ NoOutput
    /\ UNCHANGED <<staticVars, pointerVars, dialVars, now, guessedA, connections, userCursors,
                   fx, ui, links>>

\* The timer that fires next is one whose time is the earliest.
Earliest(t) ==
    \A d \in timers : t <= d.due /\ t <= d.stopAt

\* The ticks the protocol specification follows.
WithinHorizon(d) ==
    d.due <= (d.stopAt - DiscoveryLifetime) + MaxTicks * DiscoveryPeriod

\* onPeerError without the status update.
onPeerErrorKeepsStatus ==
    /\ retries' = (IF retries < MaxRetries THEN retries + 1 ELSE retries)
    /\ peerEv' = "error"
    /\ UNCHANGED <<connectionStatus, dirty>>

\* newPeer.on('error'): the status goes back to 'connecting' and a reconnect
\* is scheduled.
onPeerError ==
    /\ connectionStatus' = "connecting"
    /\ retries' = (IF retries < MaxRetries THEN retries + 1 ELSE retries)
    /\ peerEv' = "error"
    /\ dirty' = (dirty \/ connectionStatus # "connecting")

\* The interval callback of a timer whose endpoint the effect cleanup has
\* destroyed: peerInstance.connect is called on the destroyed endpoint, which
\* either reports an error on that endpoint or lets the dial go nowhere.
StaleTick(d) ==
    /\ \/ onPeerError
       \/ UNCHANGED <<connectionStatus, retries, peerEv, dirty>>
    /\ guessedA' = (guessedA \/ peerA \in Range(Candidates(roomId, d.due)))
    /\ UNCHANGED <<roomId, selectedColor, peerId, peerA, inbound, gen,
                   lastCursorAt, pointerVars, myUserId, peerOpen, opens,
                   firstOpenAt, dialVars>>

\* One run of the setInterval callback of startRoomDiscovery: every selected
\* candidate is passed to tryConnectToPeer, which creates an outbound link.
DiscoveryTick(d) ==
    /\ d \in timers
    /\ Earliest(d.due)
    /\ Len(dialQueue) <= MaxBacklog
    /\ now' = d.due
    /\ IF d.peer = gen
       THEN LET cands == Candidates(roomId, d.due)
                dials == SelectDials(cands, d.myId, fx.connections)
            IN /\ dialQueue' = dialQueue \o SelectSeq(dials, LAMBDA r : r \in Registered)
               /\ dialedAbsent' = (dialedAbsent \/ \E r \in Range(dials) : r \notin Registered)
               /\ guessedA' = (guessedA \/ peerA \in Range(cands))
               /\ UNCHANGED <<staticVars, pointerVars, endpointVars, dirty>>
       ELSE StaleTick(d)
    /\ timers' = (timers \ {d}) \cup {[d EXCEPT !.due = d.due + DiscoveryPeriod]}
    /\ ev' = Ev("tick", 0, "", {})
    /\ NoOutput
    /\ UNCHANGED <<connections, users, userCursors, fx, ui, links>>

\* The setTimeout callback of startRoomDiscovery: clearInterval.
StopDiscovery(d) ==
    /\ d \in timers
    /\ Earliest(d.stopAt)
    /\ now' = d.stopAt
    /\ timers' = timers \ {d}
    /\ ev' = Ev("discovery-stopped", 0, "", {})
    /\ NoOutput
    /\ UNCHANGED <<staticVars, pointerVars, endpointVars, dialVars, guessedA, connections,
                   users, userCursors, fx, ui, dirty, links>>

\* DialError that gives discovery up.
DialErrorStopsDiscovery ==
    /\ dialQueue # <<>>
    /\ dialQueue' = Tail(dialQueue)
    /\ timers' = {}
    /\ ev' = Ev("dial-error", 0, "", {})
    /\ NoOutput
    /\ UNCHANGED <<staticVars, pointerVars, endpointVars, now, guessedA,
                   dialedAbsent, connections, users, userCursors, fx, ui, dirty,
                   links>>

\* tryConnectToPeer's conn.on('error') for a dial to a registered endpoint that
\* did not get through: logs only.
DialError ==
    /\ dialQueue # <<>>
    /\ dialQueue' = Tail(dialQueue)
    /\ ev' = Ev("dial-error", 0, "", {})
    /\ NoOutput
    /\ UNCHANGED <<staticVars, pointerVars, endpointVars, timeVars, dialedAbsent, connections,
                   users, userCursors, fx, ui, dirty, links>>

\* tryConnectToPeer's conn.on('error') for a candidate nobody is registered
\* under: logs only.
CandidateAbsent ==
    /\ dialedAbsent
    /\ ev' = Ev("dial-error", 0, "", {})
    /\ NoOutput
    /\ UNCHANGED <<staticVars, pointerVars, endpointVars, timeVars, dialVars, connections,
                   users, userCursors, fx, ui, dirty, links>>

\* tryConnectToPeer's conn.on('open'): setupConnection(conn) attaches the
\* data, close and error handlers and one more open handler, which the
\* connection, being open already, never calls.
DialOpen ==
    /\ dialQueue # <<>>
    /\ Len(links) < MaxLinks
    /\ dialQueue' = Tail(dialQueue)
    /\ links' = Append(links, [peer |-> Head(dialQueue), dir |-> "out",
                               st |-> "open", joins |-> 0])
    /\ ev' = Ev("link-open", Len(links) + 1, "", {})
    /\ NoOutput
    /\ UNCHANGED <<staticVars, pointerVars, endpointVars, timeVars, dialedAbsent, connections,
                   users, userCursors, fx, ui, dirty>>

(***************************************************************************)
(* Endpoint lifecycle                                                      *)
(***************************************************************************)
\* The closure of the render that shows the current state, given the colour
\* and the registry of that render.
Closure(color, conns) ==
    [myUserId |-> myUserId, selectedColor |-> color, connections |-> conns,
     alias |-> TRUE, isDrawing |-> isDrawing, lastMousePos |-> lastMousePos,
     lastUpdate |-> 0]

\* The first render and the three mount effects: the room id is derived from
\* the page address, a random colour is chosen, and with the room id set the
\* PeerJS effect creates the endpoint.
Mount ==
    /\ gen = 0
    /\ roomId' = RoomIdOf(PageAddress)
    /\ selectedColor' \in Palette
    /\ connectionStatus' = "connecting"
    /\ \E n \in RandomValues : peerId' = uniquePeerId(roomId', now, n)
    /\ gen' = 1
    /\ peerEv' = "created"
    /\ fx' = [myUserId |-> NoId, selectedColor |-> selectedColor',
              connections |-> EmptyMap, alias |-> TRUE]
    /\ ui' = Closure(selectedColor', EmptyMap)
    /\ UNCHANGED peerA
    /\ inbound' = InboundSources'
    /\ ev' = Ev("mount", 0, "", {})
    /\ NoOutput
    /\ UNCHANGED <<pointerVars, timeVars, dialVars, myUserId, peerOpen, opens,
                   firstOpenAt, retries, lastCursorAt, connections, users,
                   userCursors, dirty, links>>

\* newPeer.on('error', ...) of the current endpoint
PeerError ==
    /\ gen > 0
    /\ onPeerError
    /\ ev' = Ev("peer-error", 0, "", {})
    /\ NoOutput
    /\ UNCHANGED <<roomId, selectedColor, peerId, peerA, inbound, gen,
                   lastCursorAt, pointerVars, myUserId, peerOpen, opens,
                   firstOpenAt, timeVars, dialVars, connections, users,
                   userCursors, fx, ui, links>>

\* The setTimeout callback of the error handler: reconnect() unless the
\* endpoint is destroyed. The disconnected handler has called reconnect()
\* already, so this call finds the endpoint open or reconnecting and changes
\* nothing.
ReconnectTimeout ==
    /\ retries > 0
    /\ retries' \in {retries - 1} \cup {r \in {retries} : r = MaxRetries}
    /\ ev' = Ev("reconnect-timeout", 0, "", {})
    /\ NoOutput
    /\ UNCHANGED <<roomId, selectedColor, peerId, peerA, inbound, gen,
                   lastCursorAt, pointerVars, endpointVars, timeVars, dialVars,
                   connections, users, userCursors, fx, ui, dirty, links>>

\* newPeer.on('disconnected', ...): the status goes back to 'connecting' and
\* reconnect() is called, after which the endpoint opens again.
PeerDisconnected ==
    /\ gen > 0
    /\ peerOpen => opens < MaxOpens
    /\ peerOpen' = FALSE
    /\ connectionStatus' = "connecting"
    /\ peerEv' = "disconnected"
    /\ dirty' = (dirty \/ connectionStatus # "connecting")
    /\ ev' = Ev("peer-disconnected", 0, "", {})
    /\ NoOutput
    /\ UNCHANGED <<staticVars, pointerVars, myUserId, opens, firstOpenAt,
                   timeVars, dialVars, connections, users, userCursors, fx, ui,
                   links>>

\* The peers of the links that are open.
OpenPeers == {links[l].peer : l \in {k \in DOMAIN links : links[k].st = "open"}}

\* A colour swatch's onClick: setSelectedColor(color). The render that
\* follows re-runs the PeerJS effect, selectedColor being one of its
\* dependencies: the cleanup destroys the endpoint, which closes its links
\* (the close handlers of the open ones run), and the effect body creates a
\* new endpoint under a new identifier. The discovery timers are not cleared.
selectColor(c) ==
    /\ gen > 0
    /\ gen < MaxEndpoints
    /\ c # selectedColor
    /\ selectedColor' = c
    /\ now' = now + ClickDelay
    /\ links' = [l \in DOMAIN links |-> [links[l] EXCEPT !.st = "closed"]]
    /\ connections' = [r \in DOMAIN connections \ OpenPeers |-> connections[r]]
    /\ users' = [r \in DOMAIN users \ OpenPeers |-> users[r]]
    /\ userCursors' = [r \in DOMAIN userCursors \ OpenPeers |-> userCursors[r]]
    /\ dialQueue' = <<>>
    /\ dialedAbsent' = FALSE
    /\ connectionStatus' = "connecting"
    /\ peerOpen' = FALSE
    /\ gen' = gen + 1
    /\ peerEv' = "created"
    /\ \E n \in RandomValues : peerId' = uniquePeerId(roomId, now', n)
    /\ fx' = [myUserId |-> myUserId, selectedColor |-> c,
              connections |-> connections, alias |-> (OpenPeers = {})]
    /\ ui' = [Closure(c, connections) EXCEPT !.alias = (OpenPeers = {})]
    /\ dirty' = TRUE
    /\ UNCHANGED <<roomId, peerA>>
    /\ inbound' = InboundSources'
    /\ ev' = Ev("select-color", 0, "", {})
    /\ NoOutput
    /\ UNCHANGED <<pointerVars, myUserId, opens, firstOpenAt, timers, guessedA,
                   retries, lastCursorAt>>

(***************************************************************************)
(* Links                                                                   *)
(***************************************************************************)
\* newPeer.on('connection', conn => setupConnection(conn))
InboundConnection(r) ==
    /\ peerOpen
    /\ r \in inbound
    /\ Len(links) < MaxLinks
    /\ links' = Append(links, [peer |-> r, dir |-> "in", st |-> "pending",
                               joins |-> 0])
    /\ ev' = Ev("connection", Len(links) + 1, "", {})
    /\ NoOutput
    /\ UNCHANGED <<staticVars, pointerVars, endpointVars, timeVars, dialVars, connections,
                   users, userCursors, fx, ui, dirty>>

\* setupConnection's conn.on('open') of an accepted link
InboundOpen(l) ==
    /\ l \in DOMAIN links
    /\ links[l].st = "pending"
    /\ LET msgs == <<UserJoinMsg(fx), RequestCanvasStateMsg>>
           opened == [links EXCEPT ![l].st = "open"]
       IN /\ links' = Count(opened, l, msgs)
          /\ sent' = (l :> msgs)
    /\ connections' = MapSet(connections, links[l].peer, l)
    /\ fx' = ClosureAfterSet(fx, links[l].peer, l)
    /\ ui' = ClosureAfterSet(ui, links[l].peer, l)
    /\ dirty' = TRUE
    /\ failed' = {}
    /\ canvasOps' = <<>>
    /\ ev' = Ev("link-open", l, "", {})
    /\ UNCHANGED <<staticVars, pointerVars, endpointVars, timeVars, dialVars, users,
                   userCursors>>

\* The maps that hold key r.
Holding(r) ==
    {n \in {"connections"} : r \in DOMAIN connections}
    \cup {n \in {"users"} : r \in DOMAIN users}
    \cup {n \in {"userCursors"} : r \in DOMAIN userCursors}

\* LinkClose without the setUserCursors update.
LinkCloseKeepsCursor(l) ==
    /\ l \in DOMAIN links
    /\ links[l].st = "open"
    /\ links' = [links EXCEPT ![l].st = "closed"]
    /\ connections' = MapDelete(connections, links[l].peer)
    /\ users' = MapDelete(users, links[l].peer)
    /\ fx' = ClosureAfterDelete(fx)
    /\ ui' = ClosureAfterDelete(ui)
    /\ dirty' = TRUE
    /\ ev' = Ev("link-close", l, "", Holding(links[l].peer))
    /\ NoOutput
    /\ UNCHANGED <<staticVars, pointerVars, endpointVars, timeVars, dialVars, userCursors>>

\* setupConnection's conn.on('close')
LinkClose(l) ==
    /\ l \in DOMAIN links
    /\ links[l].st = "open"
    /\ links' = [links EXCEPT ![l].st = "closed"]
    /\ connections' = MapDelete(connections, links[l].peer)
    /\ users' = MapDelete(users, links[l].peer)
    /\ userCursors' = MapDelete(userCursors, links[l].peer)
    /\ fx' = ClosureAfterDelete(fx)
    /\ ui' = ClosureAfterDelete(ui)
    /\ dirty' = TRUE
    /\ ev' = Ev("link-close", l, "", Holding(links[l].peer))
    /\ NoOutput
    /\ UNCHANGED <<staticVars, pointerVars, endpointVars, timeVars, dialVars>>

\* setupConnection's conn.on('error'): logs only.
LinkError(l) ==
    /\ l \in DOMAIN links
    /\ links[l].st = "open"
    /\ ev' = Ev("link-error", l, "", Holding(links[l].peer))
    /\ NoOutput
    /\ UNCHANGED <<staticVars, pointerVars, endpointVars, timeVars, dialVars,
                   connections, users, userCursors, fx, ui, dirty, links>>

(***************************************************************************)
(* Inbound messages                                                        *)
(***************************************************************************)
\* What the remote end of a link to r may send.
RemoteDrawings(r) ==
    {[x |-> p.x, y |-> p.y, prevX |-> p.x, prevY |-> p.y, color |-> c,
      type |-> t, userId |-> r] : p \in Coords, c \in Palette, t \in {"start", "draw"}}

\* The endpoints that get a link to the local one are foreign ones; they
\* introduce themselves under the identifier they are registered with.
RemoteMsgs(r) ==
    {DrawingMsg(d) : d \in RemoteDrawings(r)}
    \cup {[type |-> "user-join", user |-> [id |-> r, color |-> c]] : c \in Palette}
    \cup {CursorMsg(p) : p \in Coords}
    \cup {ClearMsg, RequestCanvasStateMsg, CanvasStateMsg}

\* conn = connections.get(senderId); if (conn) conn.send(msg)
ReplyTo(senderId, msg) ==
    IF senderId \in DOMAIN fx.connections
    THEN /\ SendOn(fx.connections[senderId], <<msg>>)
         /\ links' = Count(links, fx.connections[senderId], <<msg>>)
    ELSE /\ sent' = EmptyMap
         /\ failed' = {}
         /\ UNCHANGED links

\* case 'drawing'
caseDrawing(data) ==
    /\ canvasOps' = <<drawOnCanvas(data.drawingData)>>
    /\ sent' = EmptyMap
    /\ failed' = {}
    /\ UNCHANGED <<users, userCursors, dirty, links>>

\* case 'user-join'
caseUserJoin(data, senderId) ==
    /\ users' = MapSet(users, senderId, data.user)
    /\ ReplyTo(senderId, UserJoinMsg(fx))
    /\ canvasOps' = <<>>
    /\ dirty' = TRUE
    /\ UNCHANGED userCursors

\* case 'cursor'
caseCursor(data, senderId) ==
    /\ userCursors' = MapSet(userCursors, senderId, [x |-> data.x, y |-> data.y])
    /\ NoOutput
    /\ dirty' = TRUE
    /\ UNCHANGED <<users, links>>

\* caseClear that relays the message as handleClear does.
caseClearRelay ==
    /\ canvasOps' = <<clearCanvas>>
    /\ broadcastData(ClearMsg)
    /\ UNCHANGED <<users, userCursors, dirty, links>>

\* case 'clear'
caseClear ==
    /\ canvasOps' = <<clearCanvas>>
    /\ sent' = EmptyMap
    /\ failed' = {}
    /\ UNCHANGED <<users, userCursors, dirty, links>>

\* case 'request-canvas-state'
caseRequestCanvasState(senderId) ==
    /\ ReplyTo(senderId, CanvasStateMsg)
    /\ canvasOps' = <<>>
    /\ UNCHANGED <<users, userCursors, dirty>>

\* handleIncomingData(data, senderId)
handleIncomingData(data, senderId) ==
    CASE data.type = "drawing" -> caseDrawing(data)
      [] data.type = "user-join" -> caseUserJoin(data, senderId)
      [] data.type = "cursor" -> caseCursor(data, senderId)
      [] data.type = "clear" -> caseClear
      [] data.type = "request-canvas-state" -> caseRequestCanvasState(senderId)
      [] OTHER -> NoOutput /\ UNCHANGED <<users, userCursors, dirty, links>>

\* setupConnection's conn.on('data', data => handleIncomingData(data, conn.peer))
Receive(l, data) ==
    /\ l \in DOMAIN links
    /\ links[l].st = "open"
    /\ handleIncomingData(data, links[l].peer)
    /\ ev' = Ev("receive", l, data.type, {})
    /\ UNCHANGED <<staticVars, pointerVars, endpointVars, timeVars, dialVars, connections, fx,
                   ui>>

(***************************************************************************)
(* The user and the renderer                                               *)
(***************************************************************************)
\* startDrawing(e), the canvas onMouseDown
startDrawing(p) ==
    /\ LET drawData == [x |-> p.x, y |-> p.y, prevX |-> p.x, prevY |-> p.y,
                        color |-> ui.selectedColor, type |-> "start",
                        userId |-> ui.myUserId]
       IN /\ canvasOps' = <<drawOnCanvas(drawData)>>
          /\ broadcastData(DrawingMsg(drawData))
    /\ isDrawing' = TRUE
    /\ lastMousePos' = p
    /\ dirty' = TRUE
    /\ ev' = Ev("start-drawing", 0, "", {})
    /\ UNCHANGED <<staticVars, endpointVars, timeVars, dialVars, connections,
                   users, userCursors, fx, ui, links>>

\* stopDrawing(), the canvas onMouseUp and onMouseLeave
stopDrawing ==
    /\ isDrawing' = FALSE
    /\ dirty' = (dirty \/ isDrawing)
    /\ ev' = Ev("stop-drawing", 0, "", {})
    /\ NoOutput
    /\ UNCHANGED <<staticVars, lastMousePos, endpointVars, timeVars, dialVars,
                   connections, users, userCursors, fx, ui, links>>

\* The throttle test of handleMouseMove: lastUpdate is a property of the
\* function object, which every render creates anew and sets to 0.
ThrottleOpen(t) == ui.lastUpdate = 0 \/ t - ui.lastUpdate > ThrottleGap

\* The messages handleMouseMove broadcasts for a pointer event at p, time t:
\* the cursor position if the throttle lets it pass, then the stroke segment
\* of draw(e) if the render's isDrawing is set.
MoveMsgs(p, t) ==
    (IF ThrottleOpen(t) THEN <<CursorMsg(p)>> ELSE <<>>)
    \o (IF ui.isDrawing
        THEN <<DrawingMsg([x |-> p.x, y |-> p.y, prevX |-> ui.lastMousePos.x,
                           prevY |-> ui.lastMousePos.y,
                           color |-> ui.selectedColor, type |-> "draw",
                           userId |-> ui.myUserId])>>
        ELSE <<>>)

\* handleMouseMove(e), the canvas onMouseMove, for a pointer event that
\* arrives PointerStep after the handler before it: one broadcastData per
\* message, each send of which may throw.
handleMouseMove(p) ==
    /\ now + PointerStep <= Epoch + StartGap + MaxPointerSteps * PointerStep
    /\ \A d \in timers : now + PointerStep < d.due
    /\ now' = now + PointerStep
    /\ LET msgs == MoveMsgs(p, now')
           targets == BroadcastTargets(ui.connections)
       IN /\ \E thrown \in [DOMAIN msgs -> SUBSET targets] :
                /\ sent' = [l \in {k \in targets : \E i \in DOMAIN msgs : k \notin thrown[i]} |->
                               SelectSeq(msgs, LAMBDA m :
                                   \E i \in DOMAIN msgs : msgs[i] = m /\ l \notin thrown[i])]
                /\ failed' = UNION {thrown[i] : i \in DOMAIN msgs}
          /\ lastCursorAt' = (IF ThrottleOpen(now') /\ targets # {} THEN now' ELSE lastCursorAt)
    /\ ui' = [ui EXCEPT !.lastUpdate = IF ThrottleOpen(now') THEN now' ELSE @]
    /\ canvasOps' = (IF ui.isDrawing
                     THEN <<drawOnCanvas(MoveMsgs(p, now')[Len(MoveMsgs(p, now'))].drawingData)>>
                     ELSE <<>>)
    /\ lastMousePos' = (IF ui.isDrawing THEN p ELSE lastMousePos)
    /\ dirty' = (dirty \/ ui.isDrawing)
    /\ ev' = Ev("mouse-move", 0, "", {})
    /\ UNCHANGED <<roomId, selectedColor, peerId, peerA, inbound, gen, retries,
                   isDrawing, endpointVars, timers, guessedA, dialVars,
                   connections, users, userCursors, fx, links>>

\* handleClear(), the Clear All button
handleClear ==
    /\ canvasOps' = <<clearCanvas>>
    /\ broadcastData(ClearMsg)
    /\ ev' = Ev("handle-clear", 0, "", {})
    /\ UNCHANGED <<staticVars, pointerVars, endpointVars, timeVars, dialVars, connections,
                   users, userCursors, fx, ui, dirty, links>>

\* React commits the pending state updates: the handlers of the new render
\* capture the current state.
Render ==
    /\ dirty
    /\ dirty' = FALSE
    /\ ui' = [myUserId |-> myUserId, selectedColor |-> selectedColor,
              connections |-> connections, alias |-> TRUE,
              isDrawing |-> isDrawing, lastMousePos |-> lastMousePos,
              lastUpdate |-> 0]
    /\ ev' = Ev("render", 0, "", {})
    /\ NoOutput
    /\ UNCHANGED <<staticVars, pointerVars, endpointVars, timeVars, dialVars, connections,
                   users, userCursors, fx, links>>


(***************************************************************************)
(* Properties                                                              *)
(***************************************************************************)
OpenLinksTo(r) == {l \in DOMAIN links : links[l].peer = r /\ links[l].st = "open"}

\* C1: once the discovery window of the local session (opened StartGap after
\* the first session, same room) is over, some tick has generated the first
\* session's identifier as a candidate and a link to it is open.
C1_FirstSessionFound ==
    (peerOpen /\ timers = {}) => (guessedA /\ OpenLinksTo(peerA) # {})

\* The number of links, pending or open, the local session holds to r.
LinksTo(r) ==
    Cardinality({l \in DOMAIN links : links[l].peer = r /\ links[l].st \in {"pending", "open"}})
    + Cardinality({i \in DOMAIN dialQueue : dialQueue[i] = r})

\* C2: the local session holds at most one link, pending or open, to any
\* remote identifier.
C2_OneLinkPerPeer ==
    \A r \in Registered : LinksTo(r) <= 1

\* C3: when a link opens, accepted or dialed, it is in the registry under the
\* remote identifier and user-join, then request-canvas-state went out on it.
C3_OpenIntroduces ==
    ev.type = "link-open" =>
        /\ links[ev.link].peer \in DOMAIN connections
        /\ connections[links[ev.link].peer] = ev.link
        /\ ev.link \in DOMAIN sent
        /\ Len(sent[ev.link]) = 2
        /\ sent[ev.link][1].type = "user-join"
        /\ sent[ev.link][2].type = "request-canvas-state"

\* C4: after the close handler of a link to r, the registry, the users map and
\* the userCursors map have no entry keyed r.
C4_CloseRemovesPresence ==
    ev.type = "link-close" =>
        /\ links[ev.link].peer \notin DOMAIN connections
        /\ links[ev.link].peer \notin DOMAIN users
        /\ links[ev.link].peer \notin DOMAIN userCursors

\* A close handler ran that found r in all three maps.
C4_Witness ==
    /\ ev.type = "link-close"
    /\ ev.had = {"connections", "users", "userCursors"}
    /\ links[ev.link].st = "closed"

\* C5: a local stroke start (render current, no send throwing) puts exactly
\* one drawing message on the way to every remote session an open link
\* exists with, and a received drawing event is drawn once and not relayed.
C5_StrokeOncePerPeer ==
    /\ (ev.type = "start-drawing" /\ failed = {} /\ ui.connections = connections) =>
          \A r \in Registered :
              OpenLinksTo(r) # {} =>
                  /\ Cardinality(OpenLinksTo(r) \cap DOMAIN sent) = 1
                  /\ \A l \in OpenLinksTo(r) \cap DOMAIN sent :
                        Len(sent[l]) = 1 /\ sent[l][1].type = "drawing"
    /\ (ev.type = "receive" /\ ev.msg = "drawing") =>
          /\ Len(canvasOps) = 1
          /\ canvasOps[1].op = "draw"
          /\ sent = EmptyMap

\* C6: an inbound clear message clears the surface once and sends nothing;
\* a clear message goes out from handleClear only.
C6_ClearNotRelayed ==
    /\ (ev.type = "receive" /\ ev.msg = "clear") =>
          /\ canvasOps = <<clearCanvas>>
          /\ sent = EmptyMap
          /\ failed = {}
    /\ \A l \in DOMAIN sent : \A i \in DOMAIN sent[l] :
          sent[l][i].type = "clear" => ev.type = "handle-clear"

\* A clear message arrived while a registered link was open to relay it on.
C6_Witness ==
    /\ ev.type = "receive"
    /\ ev.msg = "clear"
    /\ \E r \in DOMAIN ui.connections : links[ui.connections[r]].st = "open"
    /\ canvasOps = <<clearCanvas>>

\* C7: the local side sends at most one user-join on a link.
C7_JoinOncePerLink ==
    \A l \in DOMAIN links : links[l].joins <= 1

\* C8: every user-join the local session sends carries its endpoint identifier.
C8_JoinCarriesOwnId ==
    \A l \in DOMAIN sent : \A i \in DOMAIN sent[l] :
        sent[l][i].type = "user-join" => sent[l][i].user.id = peerId

\* C9: a request-canvas-state received on a link is answered on that link by
\* one canvas-state message with a null payload, and a received canvas-state
\* changes neither registry nor presence nor cursors and sends nothing.
C9_RequestAnswered ==
    [][/\ (ev'.type = "receive" /\ ev'.msg = "request-canvas-state") =>
             sent' = (ev'.link :> <<CanvasStateMsg>>)
       /\ (ev'.type = "receive" /\ ev'.msg = "canvas-state") =>
             /\ UNCHANGED <<connections, users, userCursors>>
             /\ sent' = EmptyMap
             /\ failed' = {}]_vars

\* C10: broadcastData attempts a send on exactly the connections of its
\* registry whose open flag is set; a throwing send keeps no other send from
\* going out and the calling handler completes.
C10_BroadcastIsolation ==
    ev.type \in {"start-drawing", "handle-clear"} =>
        /\ \A r \in DOMAIN ui.connections :
              (links[ui.connections[r]].st = "open")
                  <=> (ui.connections[r] \in DOMAIN sent \cup failed)
        /\ DOMAIN sent \cup failed \subseteq {ui.connections[r] : r \in DOMAIN ui.connections}
        /\ DOMAIN sent \cap failed = {}
        /\ \A l \in DOMAIN sent : Len(sent[l]) = 1
        /\ Len(canvasOps) = 1

\* A broadcast in which one send threw and another went out.
C10_Witness ==
    /\ ev.type = "handle-clear"
    /\ failed # {}
    /\ DOMAIN sent # {}

\* C11: after the error handler of a registered open link to r, the registry,
\* the users map and the userCursors map have no entry keyed r.
C11_ErrorEvicts ==
    (ev.type = "link-error" /\ "connections" \in ev.had) =>
        /\ links[ev.link].peer \notin DOMAIN connections
        /\ links[ev.link].peer \notin DOMAIN users
        /\ links[ev.link].peer \notin DOMAIN userCursors

\* C12: no discovery tick runs later than DiscoveryLifetime after the first
\* open event of the session's endpoint.
C12_DiscoveryCeases ==
    (ev.type = "tick" /\ opens > 0) => now <= firstOpenAt + DiscoveryLifetime

\* C13: once the open event has assigned the local identifier, it never
\* changes and no further endpoint is created.
C13_IdentityImmutable ==
    [][myUserId # NoId => (myUserId' = myUserId /\ gen' = gen)]_vars

\* C14: a cursor message is broadcast only if more than ThrottleGap has
\* passed since the cursor broadcast before it.
C14_CursorThrottled ==
    [][(ev'.type = "mouse-move" /\ lastCursorAt # 0 /\ lastCursorAt' = now')
           => now' - lastCursorAt > ThrottleGap]_vars

\* C15: the error event of a dialed link that never opened leaves registry,
\* users, cursors and connection status as they are, and discovery goes on:
\* the timers and the other pending dials stay.
C15_FailedDialIsInert ==
    [][ev'.type = "dial-error" =>
           /\ UNCHANGED <<connections, users, userCursors, connectionStatus, timers>>
           /\ \/ dialQueue' = dialQueue
              \/ dialQueue # <<>> /\ dialQueue' = Tail(dialQueue)]_vars

\* A dial failed while the session was connected, its discovery timer was
\* running and further dials were pending.
C15_Witness ==
    /\ ev.type = "dial-error"
    /\ connectionStatus = "connected"
    /\ timers # {}
    /\ dialQueue # <<>>

\* C16: a discovery tick dials no candidate that is the local identifier or
\* that the connections registry holds at the time of the tick.
C16_TickSkipsRegistered ==
    ev.type = "tick" =>
        \A i \in DOMAIN dialQueue :
            dialQueue[i] # peerId /\ dialQueue[i] \notin DOMAIN connections

\* C17: the status is 'connected' only if the most recent endpoint event is
\* open, it is 'connecting' whenever the most recent endpoint event is the
\* creation, an error or a disconnection, and it is 'disconnected' only
\* before the room id exists.
C17_StatusFollowsEndpoint ==
    /\ connectionStatus = "connected" => peerEv = "open"
    /\ peerEv \in {"created", "error", "disconnected"} => connectionStatus = "connecting"
    /\ connectionStatus = "disconnected" => (roomId = <<>> /\ gen = 0)

\* An endpoint that had opened reported an error.
C17_Witness ==
    /\ opens > 0
    /\ peerEv = "error"
    /\ connectionStatus = "connecting"

\* C18: every key of users other than the local identifier, and every key of
\* userCursors, is a key of the connections registry.
C18_PresenceBacked ==
    /\ \A r \in DOMAIN users : r # peerId => r \in DOMAIN connections
    /\ \A r \in DOMAIN userCursors : r \in DOMAIN connections

\* C19: for every open link to r the registry has an entry for r that refers
\* to an open link.
C19_OpenLinkRegistered ==
    \A l \in DOMAIN links :
        links[l].st = "open" =>
            /\ links[l].peer \in DOMAIN connections
            /\ links[connections[links[l].peer]].st = "open"

\* C20: at most one discovery timer is active, and it belongs to the current
\* endpoint.
C20_OneDiscoveryTimer ==
    /\ Cardinality(timers) <= 1
    /\ \A d \in timers : d.peer = gen

(***************************************************************************)
(* Specifications                                                          *)
(***************************************************************************)
Next ==
    \/ PeerOpen
    \/ \E d \in timers : WithinHorizon(d) /\ DiscoveryTick(d)
    \/ DialError
    \/ CandidateAbsent
    \/ DialOpen
    \/ \E r \in inbound : InboundConnection(r)
    \/ \E l \in DOMAIN links : InboundOpen(l)
    \/ \E l \in DOMAIN links : LinkClose(l)
    \/ \E l \in DOMAIN links : LinkError(l)
    \/ \E l \in DOMAIN links : \E data \in RemoteMsgs(links[l].peer) : Receive(l, data)
    \/ \E p \in Coords : startDrawing(p)
    \/ handleClear
    \/ Render

Spec == Init /\ [][Next]_vars

\* The discovery scheduler and the links over the whole lifetime of the
\* discovery timer, without message traffic and user input.
NextWindow ==
    \/ PeerOpen
    \/ \E d \in timers : DiscoveryTick(d)
    \/ \E d \in timers : StopDiscovery(d)
    \/ DialError
    \/ CandidateAbsent
    \/ DialOpen
    \/ \E r \in inbound : InboundConnection(r)
    \/ \E l \in DOMAIN links : InboundOpen(l)
    \/ \E l \in DOMAIN links : LinkClose(l)

SpecWindow == InitWindow /\ [][NextWindow]_vars

\* The endpoint lifecycle from the first render on: mount, open, error,
\* disconnection and reconnection, colour changes, and the first ticks of the
\* discovery timers; no link is established.
NextLife ==
    \/ Mount
    \/ PeerOpen
    \/ PeerError
    \/ ReconnectTimeout
    \/ PeerDisconnected
    \/ \E c \in Swatches : selectColor(c)
    \/ \E d \in timers : WithinHorizon(d) /\ DiscoveryTick(d)
    \/ DialError
    \/ CandidateAbsent
    \/ Render

SpecLife == InitUnmounted /\ [][NextLife]_vars

\* Disconnection and reconnection of the endpoint over the whole lifetime of
\* the discovery timers.
NextReconnect ==
    \/ PeerOpen
    \/ PeerDisconnected
    \/ \E d \in timers : DiscoveryTick(d)
    \/ \E d \in timers : StopDiscovery(d)
    \/ DialError
    \/ CandidateAbsent

SpecReconnect == Init /\ [][NextReconnect]_vars

\* The pointer over the canvas during the first moments of a session, with
\* inbound links and the cursor messages of the remote ends.
NextPointer ==
    \/ PeerOpen
    \/ \E r \in inbound : InboundConnection(r)
    \/ \E l \in DOMAIN links : InboundOpen(l)
    \/ \E l \in DOMAIN links : \E p \in Coords : Receive(l, CursorMsg(p))
    \/ \E p \in Coords : handleMouseMove(p)
    \/ \E p \in Coords : startDrawing(p)
    \/ stopDrawing
    \/ Render

SpecPointer == Init /\ [][NextPointer]_vars
====
